---------------------------- MODULE Spec2Model ----------------------------
(***************************************************************************)
(* A model of compare.py, the NZISM version comparison tool.               *)
(*                                                                         *)
(* Python strings are sequences of one-character strings.  Python indices  *)
(* are kept 0-based and half-open: Slice(s, lo, hi) is s[lo:hi].           *)
(*                                                                         *)
(* Four specifications share the module:                                   *)
(*   SpecKey   sortkey applied to two titles                               *)
(*   SpecDiff  diff_text on two markup fragments, one opcode per step      *)
(*   Spec      the driver comparing two versions by compare_files          *)
(*   SpecBatch the driver on three or more versions, each forward pair     *)
(***************************************************************************)
EXTENDS Integers, Sequences, FiniteSets, TLC

VARIABLES
    \* sortkey
    t1, t2, k1, k2, kpc,
    \* diff_text
    old_markup, new_markup, old_text, new_text, opcodes, opidx, output,
    text_changed, dpc,
    \* __main__ and compare_files
    config, base_i, new_j, pc, comparisons, versions, reports, last, index

keyVars  == <<t1, t2, k1, k2, kpc>>
diffVars == <<old_markup, new_markup, old_text, new_text, opcodes, opidx,
              output, text_changed, dpc>>
runVars  == <<config, base_i, new_j, pc, comparisons, versions, reports, last,
              index>>
vars     == <<keyVars, diffVars, runVars>>

---------------------------------------------------------------------------
(* Python string primitives                                                *)

Slice(s, lo, hi) == SubSeq(s, lo + 1, hi)

\* str.strip() with no argument removes whitespace
IsSpace(c) == c = " "

RECURSIVE LStrip(_)
LStrip(s) == IF s # <<>> /\ IsSpace(Head(s)) THEN LStrip(Tail(s)) ELSE s

RECURSIVE RStrip(_)
RStrip(s) ==
    IF s # <<>> /\ IsSpace(s[Len(s)]) THEN RStrip(SubSeq(s, 1, Len(s) - 1)) ELSE s

Strip(s) == RStrip(LStrip(s))

RECURSIVE Concat(_)
Concat(ss) == IF ss = <<>> THEN <<>> ELSE Head(ss) \o Concat(Tail(ss))

\* needle in s
RECURSIVE Contains(_, _)
Contains(s, needle) ==
    IF Len(s) < Len(needle) THEN FALSE
    ELSE IF SubSeq(s, 1, Len(needle)) = needle THEN TRUE
    ELSE Contains(Tail(s), needle)

\* s.replace(needle, repl): every non-overlapping occurrence, left to right
RECURSIVE Replace(_, _, _)
Replace(s, needle, repl) ==
    IF Len(s) < Len(needle) THEN s
    ELSE IF SubSeq(s, 1, Len(needle)) = needle
         THEN repl \o Replace(SubSeq(s, Len(needle) + 1, Len(s)), needle, repl)
         ELSE <<Head(s)>> \o Replace(Tail(s), needle, repl)

\* s.split(sep) for a one-character sep: always at least one segment
RECURSIVE SplitFrom(_, _, _)
SplitFrom(s, sep, cur) ==
    IF s = <<>> THEN <<cur>>
    ELSE IF Head(s) = sep THEN <<cur>> \o SplitFrom(Tail(s), sep, <<>>)
    ELSE SplitFrom(Tail(s), sep, Append(cur, Head(s)))

Split(s, sep) == SplitFrom(s, sep, <<>>)

DigitChars == <<"0", "1", "2", "3", "4", "5", "6", "7", "8", "9">>

IsDigit(c) == \E d \in 1..10 : DigitChars[d] = c

DigitVal(c) == (CHOOSE d \in 1..10 : DigitChars[d] = c) - 1

RECURSIVE DigitsVal(_, _)
DigitsVal(s, acc) ==
    IF s = <<>> THEN acc ELSE DigitsVal(Tail(s), 10 * acc + DigitVal(Head(s)))

\* int(s): surrounding whitespace is dropped, one optional sign, then one or
\* more decimal digits; anything else raises ValueError
ParseInt(s) ==
    LET body   == Strip(s)
        signed == body # <<>> /\ Head(body) \in {"-", "+"}
        digits == IF signed THEN Tail(body) ELSE body
    IN  IF digits = <<>> \/ \E n \in 1..Len(digits) : ~IsDigit(digits[n])
        THEN [err |-> "ValueError", val |-> 0]
        ELSE [err |-> "",
              val |-> IF signed /\ Head(body) = "-"
                      THEN 0 - DigitsVal(digits, 0)
                      ELSE DigitsVal(digits, 0)]

\* str(n) for n >= 0
RECURSIVE NatStr(_)
NatStr(n) ==
    IF n < 10 THEN <<DigitChars[n + 1]>>
    ELSE Append(NatStr(n \div 10), DigitChars[(n % 10) + 1])

RECURSIVE Zeros(_)
Zeros(n) == IF n <= 0 THEN <<>> ELSE <<"0">> \o Zeros(n - 1)

\* "{:03d}".format(n): 3 is a MINIMUM width, the sign counts towards it, and
\* zeros go between the sign and the digits
Format03d(n) ==
    LET d == NatStr(IF n < 0 THEN 0 - n ELSE n)
    IN  IF n < 0 THEN <<"-">> \o Zeros(2 - Len(d)) \o d
        ELSE Zeros(3 - Len(d)) \o d

---------------------------------------------------------------------------
(* sortkey                                                                 *)

\* the segment positions read by sortkey: for x in [0,1,2,4]
KeyPositions == <<0, 1, 2, 4>>

NormalizeTitle(title) ==
    IF Contains(title, <<".", "C", "-">>)
    THEN Replace(title, <<".", "C", "-">>, <<".", "C", ".">>)
    ELSE title

\* the loop of sortkey from position p of KeyPositions on
RECURSIVE SortkeyLoop(_, _, _)
SortkeyLoop(segs, p, out) ==
    IF p > Len(KeyPositions) THEN [err |-> "", key |-> out]
    ELSE LET x == KeyPositions[p]
         IN  IF x >= Len(segs) THEN [err |-> "IndexError", key |-> <<>>]
             ELSE LET n == ParseInt(segs[x + 1])
                  IN  IF n.err # "" THEN [err |-> n.err, key |-> <<>>]
                      ELSE SortkeyLoop(segs, p + 1, out \o Format03d(n.val))

sortkey(title) == SortkeyLoop(Split(NormalizeTitle(title), "."), 1, <<>>)


---------------------------------------------------------------------------
(* SpecKey: sortkey applied to two titles                                  *)

\* segment texts the titles are built from; 999 is the last value that fits
\* the three-digit field and 1000 the first that does not
ChapterPool == {<<"1">>, <<"2">>, <<"1", "0", "0", "0">>}
SectionPool == {<<"1">>, <<"3">>}
BlockPool   == {<<"4">>, <<"6", "5">>, <<"9", "9", "9">>, <<"1", "0", "0", "0">>}
NumberPool  == {<<"0", "1">>, <<"1", "0">>, <<"1", "0", "0", "0">>}
SepPool     == {".", "-"}

\* '1.1.65.C.01.' (sep ".") or '1.1.65.C-01.' (sep "-"), compare.py lines 13-20
MkTitle(ch, sec, blk, sep, num) ==
    ch \o <<".">> \o sec \o <<".">> \o blk \o <<".", "C", sep>> \o num \o <<".">>

WellFormedTitles ==
    {MkTitle(ch, sec, blk, sep, num) :
        ch \in ChapterPool, sec \in SectionPool, blk \in BlockPool,
        sep \in SepPool, num \in NumberPool}

\* titles sortkey cannot read: a missing segment, a non-numeric segment, a
\* rationale paragraph in the hyphen form (only ".C-" is rewritten)
MalformedTitles ==
    {<<"1", ".", "1", ".", "C", ".", "0", "1", ".">>,
     <<"1", ".", "1">>,
     <<"1", ".", "1", ".", "6", "5", ".", "R", "-", "0", "1", ".">>}

Titles == WellFormedTitles \cup MalformedTitles

NoKey == [err |-> "", key |-> <<>>]

KeyIdle ==
    /\ t1 = <<>> /\ t2 = <<>> /\ k1 = NoKey /\ k2 = NoKey /\ kpc = "idle"

InitKey ==
    /\ t1 \in Titles
    /\ t2 \in Titles
    /\ k1 = NoKey
    /\ k2 = NoKey
    /\ kpc = "first"

SortkeyFirst ==
    /\ kpc = "first"
    /\ k1' = sortkey(t1)
    /\ kpc' = "second"
    /\ UNCHANGED <<t1, t2, k2, diffVars, runVars>>

SortkeySecond ==
    /\ kpc = "second"
    /\ k2' = sortkey(t2)
    /\ kpc' = "done"
    /\ UNCHANGED <<t1, t2, k1, diffVars, runVars>>

---------------------------------------------------------------------------
(* diff_text                                                               *)

\* one token standing for any markup tag (<p>, </p>, <br/>, ...)
Tag == "<p>"

\* the text runs between tags, in document order
RECURSIVE TextRuns(_, _)
TextRuns(markup, cur) ==
    IF markup = <<>> THEN <<cur>>
    ELSE IF Head(markup) = Tag THEN <<cur>> \o TextRuns(Tail(markup), <<>>)
    ELSE TextRuns(Tail(markup), Append(cur, Head(markup)))

\* BeautifulSoup(markup).stripped_strings: every text run stripped, the runs
\* that are empty after stripping left out
RECURSIVE StripEach(_)
StripEach(runs) ==
    IF runs = <<>> THEN <<>>
    ELSE LET r == Strip(Head(runs))
         IN  (IF r = <<>> THEN <<>> ELSE <<r>>) \o StripEach(Tail(runs))

stripped_strings(markup) == StripEach(TextRuns(markup, <<>>))

\* the loop "for string in ...stripped_strings: text += string"
PlainText(markup) == Concat(stripped_strings(markup))

\* SequenceMatcher.find_longest_match, inner loop: the length k of the match
\* that ends with a[i] and b[j] inside a[alo:] and b[blo:] (j2len)
RECURSIVE MatchEndingAt(_, _, _, _, _, _)
MatchEndingAt(a, b, alo, blo, i, j) ==
    IF i < alo \/ j < blo \/ a[i + 1] # b[j + 1] THEN 0
    ELSE 1 + MatchEndingAt(a, b, alo, blo, i - 1, j - 1)

\* the scan of find_longest_match: i ascending, j ascending, the best match
\* replaced only by a strictly longer one (if k > bestsize)
RECURSIVE ScanMatches(_, _, _, _, _, _, _, _, _)
ScanMatches(a, b, alo, ahi, blo, bhi, i, j, best) ==
    IF i >= ahi THEN best
    ELSE IF j >= bhi THEN ScanMatches(a, b, alo, ahi, blo, bhi, i + 1, blo, best)
    ELSE LET k == MatchEndingAt(a, b, alo, blo, i, j)
         IN  ScanMatches(a, b, alo, ahi, blo, bhi, i, j + 1,
                         IF k > best[3] THEN <<i - k + 1, j - k + 1, k>> ELSE best)

\* no junk and, below 200 characters, no "popular" elements: the extension
\* loops of find_longest_match have nothing to add
FindLongestMatch(a, b, alo, ahi, blo, bhi) ==
    ScanMatches(a, b, alo, ahi, blo, bhi, alo, blo, <<alo, blo, 0>>)

\* SequenceMatcher.get_matching_blocks before the collapse: the longest match
\* of the range, then the ranges left and right of it; sorted by position
RECURSIVE BlocksIn(_, _, _, _, _, _)
BlocksIn(a, b, alo, ahi, blo, bhi) ==
    LET x == FindLongestMatch(a, b, alo, ahi, blo, bhi)
        i == x[1]
        j == x[2]
        k == x[3]
    IN  IF k = 0 THEN <<>>
        ELSE (IF alo < i /\ blo < j THEN BlocksIn(a, b, alo, i, blo, j) ELSE <<>>)
             \o <<x>>
             \o (IF i + k < ahi /\ j + k < bhi
                 THEN BlocksIn(a, b, i + k, ahi, j + k, bhi) ELSE <<>>)

\* the collapse of adjacent blocks, (i1, j1, k1) the block being grown
RECURSIVE Collapse(_, _)
Collapse(blocks, cur) ==
    IF blocks = <<>> THEN (IF cur[3] # 0 THEN <<cur>> ELSE <<>>)
    ELSE LET x == Head(blocks)
         IN  IF cur[1] + cur[3] = x[1] /\ cur[2] + cur[3] = x[2]
             THEN Collapse(Tail(blocks), <<cur[1], cur[2], cur[3] + x[3]>>)
             ELSE (IF cur[3] # 0 THEN <<cur>> ELSE <<>>) \o Collapse(Tail(blocks), x)

GetMatchingBlocks(a, b) ==
    Append(Collapse(BlocksIn(a, b, 0, Len(a), 0, Len(b)), <<0, 0, 0>>),
           <<Len(a), Len(b), 0>>)

\* SequenceMatcher.get_opcodes: (tag, a0, a1, b0, b1)
RECURSIVE OpcodesFrom(_, _, _)
OpcodesFrom(blocks, i, j) ==
    IF blocks = <<>> THEN <<>>
    ELSE LET ai   == Head(blocks)[1]
             bj   == Head(blocks)[2]
             size == Head(blocks)[3]
             tag  == IF i < ai /\ j < bj THEN "replace"
                     ELSE IF i < ai THEN "delete"
                     ELSE IF j < bj THEN "insert"
                     ELSE ""
         IN  (IF tag # "" THEN <<<<tag, i, ai, j, bj>>>> ELSE <<>>)
             \o (IF size # 0 THEN <<<<"equal", ai, ai + size, bj, bj + size>>>>
                 ELSE <<>>)
             \o OpcodesFrom(Tail(blocks), ai + size, bj + size)

GetOpcodes(a, b) == OpcodesFrom(GetMatchingBlocks(a, b), 0, 0)

\* the markers of the report, one token each
InsOpen   == "<span class=\"insert\">"
DelOpen   == "<span class=\"delete\">"
SpanClose == "</span>"

\* mutant of RenderOp: the whitespace test on a deleted span is missing
RenderOpNoWhitespaceTest(op, a, b) ==
    LET olds == Slice(a, op[2], op[3])
        news == Slice(b, op[4], op[5])
    IN  CASE op[1] = "equal"   -> [out |-> olds, changed |-> FALSE]
          [] op[1] = "insert"  ->
                [out |-> <<InsOpen>> \o news \o <<SpanClose>>, changed |-> TRUE]
          [] op[1] = "delete"  ->
                [out |-> <<DelOpen>> \o olds \o <<SpanClose>>, changed |-> TRUE]
          [] op[1] = "replace" ->
                [out |-> <<DelOpen>> \o olds \o <<SpanClose>>
                         \o <<InsOpen>> \o news \o <<SpanClose>>,
                 changed |-> TRUE]

\* mutant of RenderOp: an equal span is not copied to the output
RenderOpDropsEqual(op, a, b) ==
    LET olds == Slice(a, op[2], op[3])
        news == Slice(b, op[4], op[5])
    IN  CASE op[1] = "equal"   -> [out |-> <<>>, changed |-> FALSE]
          [] op[1] = "insert"  ->
                [out |-> <<InsOpen>> \o news \o <<SpanClose>>, changed |-> TRUE]
          [] op[1] = "delete"  ->
                IF Strip(olds) = <<>> THEN [out |-> <<>>, changed |-> FALSE]
                ELSE [out |-> <<DelOpen>> \o olds \o <<SpanClose>>,
                      changed |-> TRUE]
          [] op[1] = "replace" ->
                [out |-> <<DelOpen>> \o olds \o <<SpanClose>>
                         \o <<InsOpen>> \o news \o <<SpanClose>>,
                 changed |-> TRUE]

\* mutant of RenderOp: a replace shows the old span in both markers
RenderOpReplaceOldTwice(op, a, b) ==
    LET olds == Slice(a, op[2], op[3])
        news == Slice(b, op[4], op[5])
    IN  CASE op[1] = "equal"   -> [out |-> olds, changed |-> FALSE]
          [] op[1] = "insert"  ->
                [out |-> <<InsOpen>> \o news \o <<SpanClose>>, changed |-> TRUE]
          [] op[1] = "delete"  ->
                IF Strip(olds) = <<>> THEN [out |-> <<>>, changed |-> FALSE]
                ELSE [out |-> <<DelOpen>> \o olds \o <<SpanClose>>,
                      changed |-> TRUE]
          [] op[1] = "replace" ->
                [out |-> <<DelOpen>> \o olds \o <<SpanClose>>
                         \o <<InsOpen>> \o olds \o <<SpanClose>>,
                 changed |-> TRUE]

\* one iteration of the opcode loop of diff_text: what it appends to output
\* and whether it sets text_changed
RenderOp(op, a, b) ==
    LET olds == Slice(a, op[2], op[3])
        news == Slice(b, op[4], op[5])
    IN  CASE op[1] = "equal"   -> [out |-> olds, changed |-> FALSE]
          [] op[1] = "insert"  ->
                [out |-> <<InsOpen>> \o news \o <<SpanClose>>, changed |-> TRUE]
          [] op[1] = "delete"  ->
                IF Strip(olds) = <<>> THEN [out |-> <<>>, changed |-> FALSE]
                ELSE [out |-> <<DelOpen>> \o olds \o <<SpanClose>>,
                      changed |-> TRUE]
          [] op[1] = "replace" ->
                [out |-> <<DelOpen>> \o olds \o <<SpanClose>>
                         \o <<InsOpen>> \o news \o <<SpanClose>>,
                 changed |-> TRUE]

\* the opcode loop as a whole
RECURSIVE RenderAll(_, _, _, _)
RenderAll(ops, a, b, acc) ==
    IF ops = <<>> THEN acc
    ELSE LET r == RenderOp(Head(ops), a, b)
         IN  RenderAll(Tail(ops), a, b,
                       [out |-> acc.out \o r.out,
                        changed |-> acc.changed \/ r.changed])

\* diff_text(old_markup, new_markup) -> (''.join(output), text_changed)
diff_text(om, nm) ==
    LET a == PlainText(om)
        b == PlainText(nm)
    IN  RenderAll(GetOpcodes(a, b), a, b, [out |-> <<>>, changed |-> FALSE])

---------------------------------------------------------------------------
(* SpecDiff: diff_text on two markup fragments, one opcode per step        *)

\* longest markup fragment, in tokens
MaxLen == 3

MarkupAlphabet == {"a", "b", " ", Tag}

RECURSIVE SeqsUpTo(_, _)
SeqsUpTo(S, n) ==
    IF n = 0 THEN {<<>>}
    ELSE LET shorter == SeqsUpTo(S, n - 1)
         IN  shorter \cup {Append(q, x) : q \in {r \in shorter : Len(r) = n - 1}, x \in S}

Markups == SeqsUpTo(MarkupAlphabet, MaxLen)

DiffIdle ==
    /\ old_markup = <<>> /\ new_markup = <<>> /\ old_text = <<>> /\ new_text = <<>>
    /\ opcodes = <<>> /\ opidx = 0 /\ output = <<>> /\ text_changed = FALSE
    /\ dpc = "idle"

\* diff_text entered: text_changed = False
InitDiff ==
    /\ old_markup \in Markups
    /\ new_markup \in Markups
    /\ old_text = <<>>
    /\ new_text = <<>>
    /\ opcodes = <<>>
    /\ opidx = 0
    /\ output = <<>>
    /\ text_changed = FALSE
    /\ dpc = "strip_old"

StripOld ==
    /\ dpc = "strip_old"
    /\ old_text' = PlainText(old_markup)
    /\ dpc' = "strip_new"
    /\ UNCHANGED <<old_markup, new_markup, new_text, opcodes, opidx, output,
                   text_changed, keyVars, runVars>>

StripNew ==
    /\ dpc = "strip_new"
    /\ new_text' = PlainText(new_markup)
    /\ dpc' = "match"
    /\ UNCHANGED <<old_markup, new_markup, old_text, opcodes, opidx, output,
                   text_changed, keyVars, runVars>>

MatchSequences ==
    /\ dpc = "match"
    /\ opcodes' = GetOpcodes(old_text, new_text)
    /\ opidx' = 1
    /\ output' = <<>>
    /\ dpc' = "loop"
    /\ UNCHANGED <<old_markup, new_markup, old_text, new_text, text_changed,
                   keyVars, runVars>>

\* one iteration of "for opcode, a0, a1, b0, b1 in sequence.get_opcodes()"
AtOpcode(tag) ==
    /\ dpc = "loop"
    /\ opidx <= Len(opcodes)
    /\ opcodes[opidx][1] = tag

Rendered == RenderOp(opcodes[opidx], old_text, new_text)

OpEqual ==
    /\ AtOpcode("equal")
    /\ output' = output \o Rendered.out
    /\ text_changed' = (text_changed \/ Rendered.changed)
    /\ opidx' = opidx + 1
    /\ UNCHANGED <<old_markup, new_markup, old_text, new_text, opcodes, dpc,
                   keyVars, runVars>>

OpInsert ==
    /\ AtOpcode("insert")
    /\ output' = output \o Rendered.out
    /\ text_changed' = (text_changed \/ Rendered.changed)
    /\ opidx' = opidx + 1
    /\ UNCHANGED <<old_markup, new_markup, old_text, new_text, opcodes, dpc,
                   keyVars, runVars>>

OpDelete ==
    /\ AtOpcode("delete")
    /\ output' = output \o Rendered.out
    /\ text_changed' = (text_changed \/ Rendered.changed)
    /\ opidx' = opidx + 1
    /\ UNCHANGED <<old_markup, new_markup, old_text, new_text, opcodes, dpc,
                   keyVars, runVars>>

OpReplace ==
    /\ AtOpcode("replace")
    /\ output' = output \o Rendered.out
    /\ text_changed' = (text_changed \/ Rendered.changed)
    /\ opidx' = opidx + 1
    /\ UNCHANGED <<old_markup, new_markup, old_text, new_text, opcodes, dpc,
                   keyVars, runVars>>

\* get_opcodes yields the four tags only: the RuntimeError branch of line 67
\* has no step
DiffReturn ==
    /\ dpc = "loop"
    /\ opidx > Len(opcodes)
    /\ dpc' = "done"
    /\ UNCHANGED <<old_markup, new_markup, old_text, new_text, opcodes, opidx,
                   output, text_changed, keyVars, runVars>>

---------------------------------------------------------------------------
(* compare_files                                                           *)

\* the attribute names of the two file versions, compare.py lines 87-98
attributes ==
    <<[CID |-> "CID", classifications |-> "classifications",
       compliances |-> "compliances"],
      [CID |-> "cid", classifications |-> "classification",
       compliances |-> "compliance"]>>

\* a <paragraph> element as xml.etree gives it: attrib and text.  A control
\* [idtext, title, classifications, compliances, text] is written with the
\* attribute names of its file's version (lines 13-20 show version 1)
ParagraphElement(control, fileversion) ==
    IF fileversion = 1
    THEN [attrib |-> [CID |-> control.idtext, title |-> control.title,
                      classifications |-> control.classifications,
                      compliances |-> control.compliances],
          text |-> control.text]
    ELSE [attrib |-> [cid |-> control.idtext, title |-> control.title,
                      classification |-> control.classifications,
                      compliance |-> control.compliances],
          text |-> control.text]

\* xee.parse(filename): the paragraphs of the file in document order
ParseDocument(file) ==
    [n \in 1..Len(file.paragraphs) |->
        ParagraphElement(file.paragraphs[n], file.fileversion)]

HasAttr(el, name) == name \in DOMAIN el.attrib

\* doc.findall(xpath_findall_cid(version)): the positions of the paragraphs
\* that carry the version's identifier attribute, in document order
FindAllCid(doc, version) ==
    SelectSeq([n \in 1..Len(doc) |-> n],
              LAMBDA n : HasAttr(doc[n], attributes[version].CID))

\* mutant of FindCid: the last matching paragraph instead of the first
FindCidLast(doc, version, cid) ==
    LET name == attributes[version].CID
        hits == {n \in 1..Len(doc) :
                    HasAttr(doc[n], name) /\ doc[n].attrib[name] = NatStr(cid)}
    IN  IF hits = {} THEN 0 ELSE CHOOSE n \in hits : \A m \in hits : m <= n

\* doc.find(xpath_find_cid(version, cid)): the position of the FIRST paragraph
\* whose identifier attribute is the text str(cid); 0 stands for None
FindCid(doc, version, cid) ==
    LET name == attributes[version].CID
        hits == {n \in 1..Len(doc) :
                    HasAttr(doc[n], name) /\ doc[n].attrib[name] = NatStr(cid)}
    IN  IF hits = {} THEN 0 ELSE CHOOSE n \in hits : \A m \in hits : n <= m

\* int() of the identifier attribute of every paragraph found
ParsedCids(doc, version, found) ==
    [n \in 1..Len(found) |->
        ParseInt(doc[found[n]].attrib[attributes[version].CID])]

CidsOf(parsed) ==
    IF \E n \in 1..Len(parsed) : parsed[n].err # ""
    THEN [err |-> "ValueError", cids |-> {}]
    ELSE [err |-> "", cids |-> {parsed[n].val : n \in 1..Len(parsed)}]

\* the loops of lines 102-104 and 108-110: the identifiers collected in a
\* set; [err, cids]
CidSet(doc, version) == CidsOf(ParsedCids(doc, version, FindAllCid(doc, version)))

NoControl ==
    [CID |-> 0, sortkey |-> <<>>, title |-> <<>>, classifications |-> "",
     compliances |-> "", text |-> <<>>]

Raised(e) == [err |-> e, control |-> NoControl]

\* the dict literal once sortkey has returned k
RecordWithKey(cid, el, version, text, k) ==
    IF k.err # "" THEN Raised(k.err)
    ELSE IF \/ ~HasAttr(el, attributes[version].classifications)
            \/ ~HasAttr(el, attributes[version].compliances)
    THEN Raised("KeyError")
    ELSE [err |-> "",
          control |->
            [CID |-> cid,
             sortkey |-> k.key,
             title |-> el.attrib["title"],
             classifications |-> el.attrib[attributes[version].classifications],
             compliances |-> el.attrib[attributes[version].compliances],
             text |-> text]]

RecordOf(cid, el, version, text) ==
    IF ~HasAttr(el, "title") THEN Raised("KeyError")
    ELSE RecordWithKey(cid, el, version, text, sortkey(el.attrib["title"]))

\* the dict literal of lines 120-127, 134-141 and 156-163 for the element at
\* position `at`, read with the names of `version`; the exceptions it can
\* raise are AttributeError (the element is None), ValueError and IndexError
\* (sortkey) and KeyError (a missing attribute)
ControlRecord(cid, doc, at, version, text) ==
    IF at = 0 THEN Raised("AttributeError")
    ELSE RecordOf(cid, doc[at], version, text)

\* mutant of AddedCids: the old identifiers are not taken out
AddedCidsAllNew(old_cids, new_cids) == new_cids

\* new_cids - old_cids, line 117
AddedCids(old_cids, new_cids) == new_cids \ old_cids

\* old_cids - new_cids, line 131
RemovedCids(old_cids, new_cids) == old_cids \ new_cids

\* old_cids & new_cids, line 145
CommonCids(old_cids, new_cids) == old_cids \cap new_cids

\* el.text of the element at position `at` (None has no text: the dict
\* literal raises before the text is used)
TextAt(doc, at) == IF at = 0 THEN <<>> ELSE doc[at].text

\* the loop of lines 117-128 (new document) and 131-142 (old document) over
\* the identifiers in the order `cids`; [err, list]
RECURSIVE CopyLoop(_, _, _, _)
CopyStep(cids, doc, version, acc, r) ==
    IF r.err # "" THEN [err |-> r.err, list |-> <<>>]
    ELSE CopyLoop(Tail(cids), doc, version, Append(acc, r.control))

CopyAt(cids, doc, version, acc, at) ==
    CopyStep(cids, doc, version, acc,
             ControlRecord(Head(cids), doc, at, version, TextAt(doc, at)))

CopyLoop(cids, doc, version, acc) ==
    IF cids = <<>> THEN [err |-> "", list |-> acc]
    ELSE CopyAt(cids, doc, version, acc, FindCid(doc, version, Head(cids)))

\* mutant of ChangedOutcome: the test of text_changed (line 153) is missing
ChangedOutcomeKeepsUnchanged(old_el_text, new_el_text) ==
    IF old_el_text = new_el_text
    THEN [diffed |-> FALSE, emit |-> FALSE, text |-> <<>>]
    ELSE LET d == diff_text(old_el_text, new_el_text)
         IN  [diffed |-> TRUE, emit |-> TRUE, text |-> d.out]

\* lines 149-154: identical text is skipped without diffing; otherwise the
\* texts are diffed and the control is kept only when text_changed
ChangedOutcome(old_el_text, new_el_text) ==
    IF old_el_text = new_el_text
    THEN [diffed |-> FALSE, emit |-> FALSE, text |-> <<>>]
    ELSE LET d == diff_text(old_el_text, new_el_text)
         IN  [diffed |-> TRUE, emit |-> d.changed, text |-> d.out]

\* mutant of ChangedRecord: the record is read from the old element
ChangedRecordFromOld(cid, old_doc, old_at, ov, new_doc, new_at, nv, text) ==
    ControlRecord(cid, old_doc, old_at, ov, text)

\* lines 156-163: the changed control is read from new_el
ChangedRecord(cid, old_doc, old_at, ov, new_doc, new_at, nv, text) ==
    ControlRecord(cid, new_doc, new_at, nv, text)

\* the loop of lines 145-164; [err, list, diffed], diffed the identifiers
\* diff_text was called for
RECURSIVE ChangedLoop(_, _, _, _, _, _, _)
ChangedEmit(cids, old_doc, ov, new_doc, nv, acc, diffed, r) ==
    IF r.err # "" THEN [err |-> r.err, list |-> <<>>, diffed |-> diffed]
    ELSE ChangedLoop(Tail(cids), old_doc, ov, new_doc, nv,
                     Append(acc, r.control), diffed)

ChangedDecide(cids, old_doc, old_at, ov, new_doc, new_at, nv, acc, diffed, o) ==
    IF ~o.emit
    THEN ChangedLoop(Tail(cids), old_doc, ov, new_doc, nv, acc,
                     IF o.diffed THEN diffed \cup {Head(cids)} ELSE diffed)
    ELSE ChangedEmit(cids, old_doc, ov, new_doc, nv, acc,
                     diffed \cup {Head(cids)},
                     ChangedRecord(Head(cids), old_doc, old_at, ov,
                                   new_doc, new_at, nv, o.text))

ChangedAt(cids, old_doc, old_at, ov, new_doc, new_at, nv, acc, diffed) ==
    IF old_at = 0 \/ new_at = 0
    THEN [err |-> "AttributeError", list |-> <<>>, diffed |-> diffed]
    ELSE ChangedDecide(cids, old_doc, old_at, ov, new_doc, new_at, nv, acc, diffed,
                       ChangedOutcome(old_doc[old_at].text, new_doc[new_at].text))

ChangedLoop(cids, old_doc, ov, new_doc, nv, acc, diffed) ==
    IF cids = <<>> THEN [err |-> "", list |-> acc, diffed |-> diffed]
    ELSE ChangedAt(cids, old_doc, FindCid(old_doc, ov, Head(cids)), ov,
                   new_doc, FindCid(new_doc, nv, Head(cids)), nv, acc, diffed)

\* list(s) of a set of ints: its members in the order they have in `order`
ListOf(S, order) == SelectSeq(order, LAMBDA x : x \in S)

NoResult ==
    [err |-> "", controls_added |-> <<>>, controls_removed |-> <<>>,
     controls_changed |-> <<>>, diffed |-> {}]

Failed(e) == [NoResult EXCEPT !.err = e]

\* the three loops in program order: the first exception ends the call
ThreeLoops(added, removed, changed) ==
    IF added.err # "" THEN Failed(added.err)
    ELSE IF removed.err # "" THEN Failed(removed.err)
    ELSE IF changed.err # "" THEN Failed(changed.err)
    ELSE [err |-> "",
          controls_added |-> added.list,
          controls_removed |-> removed.list,
          controls_changed |-> changed.list,
          diffed |-> changed.diffed]

\* lines 112-164 once the identifier sets are built
Classify(old_doc, ov, new_doc, nv, oc, nc, order) ==
    IF oc.err # "" THEN Failed(oc.err)
    ELSE IF nc.err # "" THEN Failed(nc.err)
    ELSE ThreeLoops(
            CopyLoop(ListOf(AddedCids(oc.cids, nc.cids), order), new_doc, nv, <<>>),
            CopyLoop(ListOf(RemovedCids(oc.cids, nc.cids), order), old_doc, ov, <<>>),
            ChangedLoop(ListOf(CommonCids(oc.cids, nc.cids), order),
                        old_doc, ov, new_doc, nv, <<>>, {}))

\* lines 100-110 on the parsed documents
CompareDocuments(old_doc, ov, new_doc, nv, order) ==
    Classify(old_doc, ov, new_doc, nv, CidSet(old_doc, ov), CidSet(new_doc, nv), order)

\* compare_files up to the rendering: `order` is the iteration order of the
\* identifier sets, which Python leaves to the set
compare_files(old, old_fileversion, new, new_fileversion, order) ==
    CompareDocuments(
        ParseDocument([paragraphs |-> old, fileversion |-> old_fileversion]),
        old_fileversion,
        ParseDocument([paragraphs |-> new, fileversion |-> new_fileversion]),
        new_fileversion, order)

---------------------------------------------------------------------------
(* __main__: the batch driver                                              *)

\* most paragraphs in the two documents of a comparison together (Spec)
MaxParagraphs == 3

\* most versions in config.json (SpecBatch)
MaxVersions == 3

TitleA   == <<"1", ".", "1", ".", "6", "5", ".", "C", ".", "0", "1", ".">>
TitleB   == <<"2", ".", "3", ".", "4", ".", "C", "-", "1", "0", ".">>
TitleBad == <<"1", ".", "1", ".", "C", ".", "0", "1", ".">>

\* the paragraphs the documents are made of.  From text "a b" to "ab" a
\* blank is deleted, from "ab" to "a b" a blank is inserted; "01" is an
\* identifier attribute that int() reads as 1 but str(1) does not give back
Paragraph(id, title, classifications, compliances, text) ==
    [idtext |-> id, title |-> title, classifications |-> classifications,
     compliances |-> compliances, text |-> text]

ControlPool ==
    {Paragraph(<<"1">>, TitleA, "All Classifications", "Must", <<"a", " ", "b">>),
     Paragraph(<<"1">>, TitleB, "Secret", "Should", <<"a", "b">>),
     Paragraph(<<"2">>, TitleA, "All Classifications", "Must", <<"a", " ", "b">>),
     Paragraph(<<"3">>, TitleB, "Secret", "Should", <<"a", "b">>),
     Paragraph(<<"0", "1">>, TitleB, "Secret", "Should", <<"a", "b">>),
     Paragraph(<<"2">>, TitleBad, "Secret", "Must", <<"a", "b">>)}

RECURSIVE SeqsOfLen(_, _)
SeqsOfLen(S, n) ==
    IF n = 0 THEN {<<>>}
    ELSE {Append(q, x) : q \in SeqsOfLen(S, n - 1), x \in S}

\* config.json entries for version label n
Entry(n, paragraphs, fileversion) ==
    [version |-> n, paragraphs |-> paragraphs, fileversion |-> fileversion]

\* the identifiers a run can meet, and the orders a set of them can have
RECURSIVE Perms(_)
Perms(S) ==
    IF S = {} THEN {<<>>}
    ELSE UNION {{<<x>> \o q : q \in Perms(S \ {x})} : x \in S}

IdsOf(paragraphs) ==
    {ParseInt(paragraphs[n].idtext).val : n \in 1..Len(paragraphs)}

Range(seq) == {seq[n] : n \in 1..Len(seq)}

\* index.html not written
NoIndex == [matrix |-> <<>>, most_recent |-> <<>>, versions |-> <<>>]

RunIdle ==
    /\ config = <<>> /\ base_i = 0 /\ new_j = 0 /\ pc = "idle"
    /\ comparisons = <<>> /\ versions = <<>> /\ reports = <<>>
    /\ last = NoResult /\ index = NoIndex

RunStart ==
    /\ base_i = 0
    /\ new_j = 0
    /\ pc = "outer"
    /\ comparisons = <<>>
    /\ versions = <<>>
    /\ reports = <<>>
    /\ last = NoResult
    /\ index = NoIndex

\* two versions, at most MaxParagraphs paragraphs between them
InitRun ==
    /\ \E n \in 0..MaxParagraphs, m \in 0..MaxParagraphs :
          /\ n + m <= MaxParagraphs
          /\ \E old \in SeqsOfLen(ControlPool, n), new \in SeqsOfLen(ControlPool, m),
                ov \in {1, 2}, nv \in {1, 2} :
                config = <<Entry(1, old, ov), Entry(2, new, nv)>>
    /\ RunStart

\* three to MaxVersions versions of at most one paragraph each
InitBatch ==
    /\ \E n \in 3..MaxVersions :
          \E files \in [1..n -> (SeqsOfLen(ControlPool, 0) \cup SeqsOfLen(ControlPool, 1))
                                \X {1, 2}] :
             config = [v \in 1..n |-> Entry(v, files[v][1], files[v][2])]
    /\ RunStart

Label(n) == config[n].version

\* for (i, base) in enumerate(config): versions.append(base['version'])
BeginBase ==
    /\ pc = "outer"
    /\ base_i < Len(config)
    /\ versions' = Append(versions, Label(base_i + 1))
    /\ new_j' = base_i + 1
    /\ pc' = "inner"
    /\ UNCHANGED <<config, base_i, comparisons, reports, last, index,
                   keyVars, diffVars>>

\* lines 189-194 for the pair (base_i, new_j): the comparison is recorded, the
\* output file is opened (and so emptied), compare_files runs
CompareOf(order) ==
    compare_files(config[base_i + 1].paragraphs, config[base_i + 1].fileversion,
                  config[new_j + 1].paragraphs, config[new_j + 1].fileversion,
                  order)

PairOrders ==
    Perms(IdsOf(config[base_i + 1].paragraphs) \cup IdsOf(config[new_j + 1].paragraphs))

\* compare_files returns: the report is rendered and written
ComparePair ==
    /\ pc = "inner"
    /\ new_j < Len(config)
    /\ \E order \in PairOrders :
          \E r \in {CompareOf(order)} :
              /\ r.err = ""
              /\ last' = r
              /\ reports' = Append(reports,
                                   [base |-> Label(base_i + 1), new |-> Label(new_j + 1),
                                    written |-> TRUE,
                                    controls_added |-> r.controls_added,
                                    controls_removed |-> r.controls_removed,
                                    controls_changed |-> r.controls_changed])
    /\ comparisons' = Append(comparisons, <<Label(base_i + 1), Label(new_j + 1)>>)
    /\ new_j' = new_j + 1
    /\ UNCHANGED <<config, base_i, pc, versions, index, keyVars, diffVars>>

\* compare_files raises: nothing catches the exception, the run ends with
\* the output file of the pair opened and left empty
ComparePairRaises ==
    /\ pc = "inner"
    /\ new_j < Len(config)
    /\ \E order \in PairOrders :
          \E r \in {CompareOf(order)} :
              /\ r.err # ""
              /\ last' = r
    /\ reports' = Append(reports,
                         [base |-> Label(base_i + 1), new |-> Label(new_j + 1),
                          written |-> FALSE,
                          controls_added |-> <<>>, controls_removed |-> <<>>,
                          controls_changed |-> <<>>])
    /\ comparisons' = Append(comparisons, <<Label(base_i + 1), Label(new_j + 1)>>)
    /\ pc' = "raised"
    /\ UNCHANGED <<config, base_i, new_j, versions, index, keyVars, diffVars>>

\* the inner range is exhausted
EndBase ==
    /\ pc = "inner"
    /\ new_j >= Len(config)
    /\ base_i' = base_i + 1
    /\ pc' = "outer"
    /\ UNCHANGED <<config, new_j, comparisons, versions, reports, last,
                   index, keyVars, diffVars>>

\* lines 196-212: the matrix and index.html
WriteIndex ==
    /\ pc = "outer"
    /\ base_i >= Len(config)
    /\ index' = [matrix |-> [x \in Range(versions), y \in Range(versions) |->
                                 \E n \in 1..Len(comparisons) : comparisons[n] = <<x, y>>],
                  most_recent |-> SelectSeq(comparisons,
                                            LAMBDA c : c[2] = Label(Len(config))),
                  versions |-> versions]
    /\ pc' = "done"
    /\ UNCHANGED <<config, base_i, new_j, comparisons, versions, reports, last,
                   keyVars, diffVars>>

---------------------------------------------------------------------------
(* The specifications                                                      *)

NextKey == SortkeyFirst \/ SortkeySecond

NextDiff ==
    \/ StripOld
    \/ StripNew
    \/ MatchSequences
    \/ OpEqual
    \/ OpInsert
    \/ OpDelete
    \/ OpReplace
    \/ DiffReturn

Next ==
    \/ BeginBase
    \/ ComparePair
    \/ ComparePairRaises
    \/ EndBase
    \/ WriteIndex

Init == KeyIdle /\ DiffIdle /\ InitRun

InitB == KeyIdle /\ DiffIdle /\ InitBatch

InitK == InitKey /\ DiffIdle /\ RunIdle

InitD == KeyIdle /\ InitDiff /\ RunIdle

Spec == Init /\ [][Next]_vars

SpecBatch == InitB /\ [][Next]_vars

SpecKey == InitK /\ [][NextKey]_vars

SpecDiff == InitD /\ [][NextDiff]_vars

---------------------------------------------------------------------------
(* Properties of sortkey (SpecKey)                                         *)

\* the precondition of sortkey: at least 5 segments after normalization,
\* those at positions 0, 1, 2 and 4 non-negative integers
SegmentsOf(title) == Split(NormalizeTitle(title), ".")

TitleOk(title) ==
    /\ Len(SegmentsOf(title)) >= 5
    /\ \A x \in {0, 1, 2, 4} :
          /\ ParseInt(SegmentsOf(title)[x + 1]).err = ""
          /\ ParseInt(SegmentsOf(title)[x + 1]).val >= 0

\* (chapter, section, block, paragraph number)
KeyTuple(title) ==
    [p \in 1..4 |-> ParseInt(SegmentsOf(title)[<<0, 1, 2, 4>>[p] + 1]).val]

ZeroPad3(n) == Zeros(3 - Len(NatStr(n))) \o NatStr(n)

TupleLess(x, y) ==
    \E p \in 1..4 : x[p] < y[p] /\ \A q \in 1..(p - 1) : x[q] = y[q]

Min(x, y) == IF x <= y THEN x ELSE y

\* Python's < on strings of digits
StrLess(x, y) ==
    \/ Len(x) < Len(y) /\ SubSeq(y, 1, Len(x)) = x
    \/ \E p \in 1..Min(Len(x), Len(y)) :
          /\ DigitVal(x[p]) < DigitVal(y[p])
          /\ SubSeq(x, 1, p - 1) = SubSeq(y, 1, p - 1)

AllDigits(str) == \A n \in 1..Len(str) : IsDigit(str[n])

\* t2 is t1 with 'C.NN' written 'C-NN'
HyphenFormOf(dotted, hyphenated) ==
    /\ Contains(dotted, <<".", "C", ".">>)
    /\ hyphenated = Replace(dotted, <<".", "C", ".">>, <<".", "C", "-">>)

\* C5: for every title that meets the precondition, sortkey returns exactly
\* 12 digits, the four integers zero-padded to width 3 and concatenated, and
\* the hyphen form of a title gets the key of its dot form
C5_TwelveDigits ==
    (kpc = "done" /\ TitleOk(t1)) =>
        /\ k1.err = ""
        /\ Len(k1.key) = 12
        /\ AllDigits(k1.key)
        /\ k1.key = ZeroPad3(KeyTuple(t1)[1]) \o ZeroPad3(KeyTuple(t1)[2])
                    \o ZeroPad3(KeyTuple(t1)[3]) \o ZeroPad3(KeyTuple(t1)[4])
        /\ (HyphenFormOf(t1, t2) => k2 = k1)

\* C6: for two titles that meet the precondition the keys compare as the
\* tuples (chapter, section, block, paragraph number) do, and are equal
\* exactly when the tuples are
C6_KeyOrderIsTupleOrder ==
    (kpc = "done" /\ TitleOk(t1) /\ TitleOk(t2)) =>
        /\ StrLess(k1.key, k2.key) <=> TupleLess(KeyTuple(t1), KeyTuple(t2))
        /\ (k1.key = k2.key) <=> (KeyTuple(t1) = KeyTuple(t2))

---------------------------------------------------------------------------
(* Properties of diff_text (SpecDiff)                                      *)

\* an opcode that counts as a change: an insert, a replace, or a delete of
\* something other than whitespace
Significant(op) ==
    \/ op[1] \in {"insert", "replace"}
    \/ op[1] = "delete" /\ Strip(Slice(old_text, op[2], op[3])) # <<>>

WhitespaceDelete(op) ==
    op[1] = "delete" /\ Strip(Slice(old_text, op[2], op[3])) = <<>>

\* C3: text_changed starts false and, after any number of opcodes, is true
\* exactly when one of the opcodes handled so far is an insert, a replace or
\* a delete of non-whitespace; when it ends false the output is the new
\* plain text, the whitespace-only deletes having added nothing
C3_ChangedFlag ==
    /\ dpc \in {"strip_old", "strip_new", "match"} => text_changed = FALSE
    /\ dpc \in {"loop", "done"} =>
          text_changed = (\E n \in 1..(opidx - 1) : Significant(opcodes[n]))
    /\ (dpc = "done" /\ ~text_changed) => output = new_text
    /\ (dpc = "done" /\ \E n \in 1..Len(opcodes) :
                           opcodes[n][1] = "insert"
                           /\ Strip(Slice(new_text, opcodes[n][4], opcodes[n][5])) = <<>>)
          => text_changed

C3_Witness ==
    /\ dpc = "done"
    /\ ~text_changed
    /\ \E n \in 1..Len(opcodes) : WhitespaceDelete(opcodes[n])

\* C4 as claimed: diff_text(x, x) returns (x, False)
C4_IdentityReturnsInput ==
    (dpc = "done" /\ old_markup = new_markup) =>
        (output = old_markup /\ text_changed = FALSE)

HasTag(markup) == \E n \in 1..Len(markup) : markup[n] = Tag

\* C4 amended: diff_text(x, x) returns (p, False), p the plain text of x
\* (tags removed, every text run stripped); p is x itself when x has no tag
\* and no whitespace at either end
C4_IdentityReturnsPlainText ==
    (dpc = "done" /\ old_markup = new_markup) =>
        /\ text_changed = FALSE
        /\ output = Concat(StripEach(TextRuns(old_markup, <<>>)))
        /\ (~HasTag(old_markup) /\ Strip(old_markup) = old_markup)
              => output = old_markup

C4_Witness ==
    /\ dpc = "done"
    /\ old_markup = new_markup
    /\ HasTag(old_markup)
    /\ output # <<>>
    /\ output # old_markup

\* the text of one side of the report: the unmarked text and the content of
\* the spans of `keep`, the spans of the other marker dropped
RECURSIVE SideOf(_, _, _)
SideOf(out, keep, inside) ==
    IF out = <<>> THEN <<>>
    ELSE IF Head(out) \in {InsOpen, DelOpen} THEN SideOf(Tail(out), keep, Head(out))
    ELSE IF Head(out) = SpanClose THEN SideOf(Tail(out), keep, "")
    ELSE (IF inside \in {"", keep} THEN <<Head(out)>> ELSE <<>>)
         \o SideOf(Tail(out), keep, inside)

\* the old plain text without the spans deleted as whitespace only
RECURSIVE OldKept(_)
OldKept(ops) ==
    IF ops = <<>> THEN <<>>
    ELSE (IF WhitespaceDelete(Head(ops)) THEN <<>>
          ELSE Slice(old_text, Head(ops)[2], Head(ops)[3]))
         \o OldKept(Tail(ops))

RECURSIVE NoBlanks(_)
NoBlanks(str) ==
    IF str = <<>> THEN <<>>
    ELSE (IF IsSpace(Head(str)) THEN <<>> ELSE <<Head(str)>>) \o NoBlanks(Tail(str))

\* C10: the unmarked and insert-marked text of the output, in order, is the
\* new plain text; the unmarked and delete-marked text is the old plain text
\* less its whitespace-only deleted spans
C10_OutputReconstructsBothSides ==
    dpc = "done" =>
        /\ SideOf(output, InsOpen, "") = new_text
        /\ SideOf(output, DelOpen, "") = OldKept(opcodes)
        /\ NoBlanks(SideOf(output, DelOpen, "")) = NoBlanks(old_text)

C10_Witness ==
    /\ dpc = "done"
    /\ \E n \in 1..Len(opcodes) : WhitespaceDelete(opcodes[n])
    /\ \E n \in 1..Len(opcodes) : opcodes[n][1] = "insert"
    /\ SideOf(output, DelOpen, "") # old_text

---------------------------------------------------------------------------
(* Properties of compare_files (Spec)                                      *)

\* the last comparison returned and its report was written
Compared == reports # <<>> /\ reports[Len(reports)].written

OldParagraphs == config[reports[Len(reports)].base].paragraphs

NewParagraphs == config[reports[Len(reports)].new].paragraphs

IdOf(paragraph) == ParseInt(paragraph.idtext).val

OldIds == {IdOf(OldParagraphs[n]) : n \in 1..Len(OldParagraphs)}

NewIds == {IdOf(NewParagraphs[n]) : n \in 1..Len(NewParagraphs)}

CidsIn(list) == {list[n].CID : n \in 1..Len(list)}

NoRepeat(list) == \A n, m \in 1..Len(list) : list[n].CID = list[m].CID => n = m

AddedIds == CidsIn(last.controls_added)

RemovedIds == CidsIn(last.controls_removed)

ChangedIds == CidsIn(last.controls_changed)

\* C1: added = B \ A, removed = A \ B, changed within A /\ B, no identifier
\* twice in a list, the three sets disjoint, and with the unchanged ones
\* they make up B and A
C1_SetTotality ==
    Compared =>
        /\ AddedIds = NewIds \ OldIds
        /\ RemovedIds = OldIds \ NewIds
        /\ ChangedIds \subseteq (OldIds \cap NewIds)
        /\ NoRepeat(last.controls_added)
        /\ NoRepeat(last.controls_removed)
        /\ NoRepeat(last.controls_changed)
        /\ AddedIds \cap RemovedIds = {}
        /\ AddedIds \cap ChangedIds = {}
        /\ RemovedIds \cap ChangedIds = {}
        /\ AddedIds \cup ChangedIds \cup ((OldIds \cap NewIds) \ ChangedIds) = NewIds
        /\ RemovedIds \cup ChangedIds \cup ((OldIds \cap NewIds) \ ChangedIds) = OldIds

C1_Witness ==
    /\ Compared
    /\ AddedIds # {}
    /\ ChangedIds # {}

\* the first paragraph whose identifier attribute is the text str(cid)
FirstWith(paragraphs, cid) ==
    paragraphs[CHOOSE n \in 1..Len(paragraphs) :
                  /\ paragraphs[n].idtext = NatStr(cid)
                  /\ \A m \in 1..(n - 1) : paragraphs[m].idtext # NatStr(cid)]

\* the last paragraph whose identifier is cid
LastWith(paragraphs, cid) ==
    paragraphs[CHOOSE n \in 1..Len(paragraphs) :
                  /\ IdOf(paragraphs[n]) = cid
                  /\ \A m \in (n + 1)..Len(paragraphs) : IdOf(paragraphs[m]) # cid]

\* C2: an identifier of both documents is in controls_changed exactly when
\* its two raw texts differ and diff_text reports a change; diff_text is
\* called for it exactly when the raw texts differ
C2_ChangedIffDiffers ==
    Compared =>
        \A cid \in OldIds \cap NewIds :
            /\ cid \in ChangedIds <=>
                  /\ FirstWith(OldParagraphs, cid).text # FirstWith(NewParagraphs, cid).text
                  /\ diff_text(FirstWith(OldParagraphs, cid).text,
                               FirstWith(NewParagraphs, cid).text).changed
            /\ cid \in last.diffed <=>
                  FirstWith(OldParagraphs, cid).text # FirstWith(NewParagraphs, cid).text

C2_Witness ==
    /\ Compared
    /\ \E cid \in OldIds \cap NewIds : cid \in last.diffed /\ cid \notin ChangedIds

SameFields(record, paragraph) ==
    /\ record.title = paragraph.title
    /\ record.classifications = paragraph.classifications
    /\ record.compliances = paragraph.compliances

\* of the paragraphs with identifier cid the first or the last
Pick(which, paragraphs, cid) ==
    IF which = "first" THEN FirstWith(paragraphs, cid) ELSE LastWith(paragraphs, cid)

\* every record of the three lists is read from the paragraph Pick chooses
ReadFrom(which) ==
    /\ \A n \in 1..Len(last.controls_added) :
          LET r == last.controls_added[n]
          IN  /\ SameFields(r, Pick(which, NewParagraphs, r.CID))
              /\ r.text = Pick(which, NewParagraphs, r.CID).text
    /\ \A n \in 1..Len(last.controls_removed) :
          LET r == last.controls_removed[n]
          IN  /\ SameFields(r, Pick(which, OldParagraphs, r.CID))
              /\ r.text = Pick(which, OldParagraphs, r.CID).text
    /\ \A n \in 1..Len(last.controls_changed) :
          LET r == last.controls_changed[n]
          IN  /\ SameFields(r, Pick(which, NewParagraphs, r.CID))
              /\ r.text = diff_text(Pick(which, OldParagraphs, r.CID).text,
                                    Pick(which, NewParagraphs, r.CID).text).out

\* C7 as claimed: of several paragraphs with one identifier the last is used
C7_LastSeenWins == Compared => ReadFrom("last")

Readable(paragraphs) ==
    \A n \in 1..Len(paragraphs) :
        /\ sortkey(paragraphs[n].title).err = ""
        /\ paragraphs[n].idtext = NatStr(IdOf(paragraphs[n]))

Attempted == reports # <<>>

AttemptedOld == config[reports[Len(reports)].base].paragraphs

AttemptedNew == config[reports[Len(reports)].new].paragraphs

\* C7 amended: of several paragraphs with one identifier the FIRST whose
\* identifier attribute is the decimal text of the identifier is used, for
\* title, attributes and text, in all three lists; and repeated identifiers
\* raise nothing: documents whose titles sortkey can read and whose
\* identifier attributes are written in decimal are compared to the end
C7_FirstSeenWins ==
    /\ Compared => ReadFrom("first")
    /\ (Attempted /\ Readable(AttemptedOld) /\ Readable(AttemptedNew)) => Compared

Repeats(paragraphs, cid) ==
    \E n, m \in 1..Len(paragraphs) :
        /\ n < m
        /\ paragraphs[n].idtext = NatStr(cid)
        /\ paragraphs[m].idtext = NatStr(cid)
        /\ paragraphs[n].title # paragraphs[m].title

C7_Witness ==
    /\ Compared
    /\ \E cid \in ChangedIds : Repeats(NewParagraphs, cid)

\* C8: every record carries sortkey(title) of its own title; added and
\* changed records have the title, classifications and compliances of a
\* paragraph of the new document with that identifier, removed records of a
\* paragraph of the old document; added and removed records carry that
\* paragraph's raw text, changed records the diff of the two texts
FromSome(record, paragraphs) ==
    \E n \in 1..Len(paragraphs) :
        /\ IdOf(paragraphs[n]) = record.CID
        /\ SameFields(record, paragraphs[n])
        /\ record.text = paragraphs[n].text

DiffFromSome(record, olds, news) ==
    \E n \in 1..Len(news), m \in 1..Len(olds) :
        /\ IdOf(news[n]) = record.CID
        /\ IdOf(olds[m]) = record.CID
        /\ SameFields(record, news[n])
        /\ record.text = diff_text(olds[m].text, news[n].text).out
        /\ record.text # news[n].text

OwnSortkey(list) ==
    \A n \in 1..Len(list) :
        /\ sortkey(list[n].title).err = ""
        /\ list[n].sortkey = sortkey(list[n].title).key

C8_RecordFields ==
    Compared =>
        /\ OwnSortkey(last.controls_added)
        /\ OwnSortkey(last.controls_removed)
        /\ OwnSortkey(last.controls_changed)
        /\ \A n \in 1..Len(last.controls_added) :
              FromSome(last.controls_added[n], NewParagraphs)
        /\ \A n \in 1..Len(last.controls_removed) :
              FromSome(last.controls_removed[n], OldParagraphs)
        /\ \A n \in 1..Len(last.controls_changed) :
              DiffFromSome(last.controls_changed[n], OldParagraphs, NewParagraphs)

C8_Witness ==
    /\ Compared
    /\ config[reports[Len(reports)].base].fileversion = 1
    /\ config[reports[Len(reports)].new].fileversion = 2
    /\ last.controls_changed # <<>>
    /\ \E cid \in ChangedIds :
          FirstWith(OldParagraphs, cid).title # FirstWith(NewParagraphs, cid).title

---------------------------------------------------------------------------
(* Properties of the batch run (SpecBatch)                                 *)

\* the comparison of the versions at positions i < j raises nothing
PairCompares(i, j) ==
    \A order \in Perms(IdsOf(config[i].paragraphs) \cup IdsOf(config[j].paragraphs)) :
        compare_files(config[i].paragraphs, config[i].fileversion,
                      config[j].paragraphs, config[j].fileversion, order).err = ""

ReportWritten(i, j) ==
    \E n \in 1..Len(reports) :
        reports[n].base = i /\ reports[n].new = j /\ reports[n].written

\* C9: when the run has ended, with or without a failed comparison, every
\* forward pair has been compared and every pair whose comparison does not
\* fail has its report written
C9_BatchContinuesAfterFailure ==
    pc \in {"done", "raised"} =>
        \A i, j \in 1..Len(config) :
            i < j =>
                /\ \E n \in 1..Len(comparisons) : comparisons[n] = <<i, j>>
                /\ PairCompares(i, j) => ReportWritten(i, j)
=============================================================================
